---- MODULE Spec2Model ----
(***************************************************************************)
(* Model of the JSON-RPC test oracle                                       *)
(* src/extensions/scarb-execute/tests/test_oracle.py.                      *)
(*                                                                         *)
(* The oracle is one sequential process.  It writes lines to stdout and    *)
(* reads lines from stdin.  One action of the model is one blocking read   *)
(* of the program together with everything the program does until it       *)
(* blocks on the next read or exits.                                       *)
(*                                                                         *)
(* Optional values (Python None / an absent JSON key) are the empty tuple; *)
(* a present value x is the one-element tuple <<x>>.  Text that the code   *)
(* parses or produces (felts) is a sequence of one-character strings.      *)
(***************************************************************************)
EXTENDS Integers, Sequences, FiniteSets, TLC

VARIABLES
    pc,            \* where main() is: Start, Handshaking, Serving, Terminated
    next_send_id,  \* the global _next_send_id
    stdout,        \* the messages printed so far
    request,       \* the line the last input() returned, if any
    nread,         \* how many lines input() has returned
    exit_code,     \* the process's exit status once it has exited
    acked,         \* recv(expect_id=send_id) has returned
    eof,           \* input() has raised EOFError
    fpc,           \* a codec function applied on its own: which step it is at
    arg,           \* ... its argument
    ret            \* ... its last return value

\* the state of the process
proc == <<pc, next_send_id, stdout, request, nread, exit_code, acked, eof>>

\* the state of a codec function applied outside a session
call == <<fpc, arg, ret>>

vars == <<pc, next_send_id, stdout, request, nread, exit_code, acked, eof, fpc, arg, ret>>

(* ---------------------------------------------------------------- bounds *)
\* number of lines the host writes before it closes the stream, at most
MaxLines == 3
\* largest identifier the host puts on a message
MaxId == 1
\* the codec functions are applied to every felt up to this one
MaxFelt == 20
\* ... in sequences of at most this length
MaxSeq == 2

(* ------------------------------------------------------------ JSON values *)
None == <<>>
Some(x) == <<x>>

\* a JSON value as it appears inside calldata
JInt(n) == [t |-> "int", n |-> n, s |-> <<>>]
JStr(s) == [t |-> "str", n |-> 0, s |-> s]
JNull == [t |-> "null", n |-> 0, s |-> <<>>]
\* true and false, which Python counts as 1 and 0
JBool(b) == [t |-> "bool", n |-> IF b THEN 1 ELSE 0, s |-> <<>>]
\* a non-negative number with a fraction: its whole part and fraction digits
JFloat(whole, frac) == [t |-> "float", n |-> whole, s |-> frac]

HexChars == <<"0", "1", "2", "3", "4", "5", "6", "7", "8", "9", "a", "b", "c", "d", "e", "f">>

DigitVal(c) == CHOOSE i \in 0..15 : HexChars[i + 1] = c

IsDigit(c, base) == \E i \in 0..(base - 1) : HexChars[i + 1] = c

RECURSIVE DigitsVal(_, _)
DigitsVal(ds, base) ==
    IF ds = <<>> THEN 0
    ELSE DigitsVal(SubSeq(ds, 1, Len(ds) - 1), base) * base + DigitVal(ds[Len(ds)])

AllDigits(ds, base) == Len(ds) > 0 /\ \A i \in 1..Len(ds) : IsDigit(ds[i], base)

\* the unsigned literals int(s, 0) accepts among texts over the characters
\* 0-9, a-f, x, z and "-": 0x.., 0b.., or decimal without a leading zero
\* (a run of zeros is the number zero)
LitBase(s) ==
    IF Len(s) >= 2 /\ s[1] = "0" /\ s[2] = "x" THEN 16
    ELSE IF Len(s) >= 2 /\ s[1] = "0" /\ s[2] = "b" THEN 2
    ELSE 10

LitDigits(s) == IF LitBase(s) = 10 THEN s ELSE SubSeq(s, 3, Len(s))

LitOk(s) ==
    /\ AllDigits(LitDigits(s), LitBase(s))
    /\ LitBase(s) = 10 /\ s[1] = "0" => \A i \in 1..Len(s) : s[i] = "0"

Unsigned(s) == IF Len(s) > 0 /\ s[1] = "-" THEN SubSeq(s, 2, Len(s)) ELSE s

\* int(felt, 0): does the text parse, and to what
CanParse(s) == LitOk(Unsigned(s))

ParseInt(s) ==
    LET u == Unsigned(s)
        v == DigitsVal(LitDigits(u), LitBase(u))
    IN  IF u = s THEN v ELSE 0 - v

RECURSIVE HexDigitsOf(_)
HexDigitsOf(n) ==
    IF n < 16 THEN <<HexChars[n + 1]>>
    ELSE Append(HexDigitsOf(n \div 16), HexChars[(n % 16) + 1])

\* hex digits without the "0x" in front
Hex_noprefix(n) == HexDigitsOf(n)

\* hex(felt)
Hex(n) == IF n < 0 THEN <<"-", "0", "x">> \o HexDigitsOf(0 - n) ELSE <<"0", "x">> \o HexDigitsOf(n)

\* encode(result)
encode(result) == [i \in 1..Len(result) |-> Hex(result[i])]

\* decode(calldata) raises ValueError when a string element is no literal
decode_raises(calldata) ==
    \E i \in 1..Len(calldata) : calldata[i].t = "str" /\ ~CanParse(calldata[i].s)

\* decode(calldata): strings are parsed, every other element passes through
decode(calldata) ==
    [i \in 1..Len(calldata) |->
        IF calldata[i].t = "str" THEN JInt(ParseInt(calldata[i].s)) ELSE calldata[i]]

(* --------------------------------------------------------------- messages *)
Message(kind, v, id, method, params, result, error) ==
    [kind |-> kind, jsonrpc |-> v, id |-> id, method |-> method,
     params |-> params, result |-> result, error |-> error]

\* a line that is no JSON text, and a line whose JSON value is no object
Malformed == Message("malformed", None, None, None, None, None, None)
NonObject == Message("nonobject", None, None, None, None, None, None)

Object(v, id, method, params, result, error) ==
    Message("object", v, id, method, params, result, error)

ErrorObj(text) == [code |-> 0, message |-> text]

Params(isdict, selector, calldata) ==
    [isdict |-> isdict, selector |-> selector, calldata |-> calldata]

\* "params" that is no JSON object (an array, null)
ParamsNonObject == Params(FALSE, None, None)

(* ------------------------------------------------------- the host's lines *)
Ids == {None} \cup {Some(i) : i \in 0..MaxId}

Versions == {None, Some("2.0"), Some("1.0")}

Methods == {None, Some(""), Some("shutdown"), Some("invoke"), Some("ping")}

Selectors == {None, Some("sqrt"), Some("panic"), Some("bogus")}

Calldatas ==
    { None,
      Some(<<>>),
      Some(<<JInt(16)>>),
      Some(<<JStr(<<"0", "x", "1", "0">>)>>),
      Some(<<JStr(<<"1", "7">>)>>),
      Some(<<JStr(<<"z", "z">>)>>),
      Some(<<JInt(9), JStr(<<"0", "x">>)>>),
      Some(<<JInt(0 - 4)>>),
      Some(<<JNull>>),
      Some(<<JBool(TRUE)>>),
      Some(<<JFloat(2, <<"5">>)>>),
      Some(<<JInt(3), JInt(16)>>) }

ParamsSet ==
    {ParamsNonObject} \cup {Params(TRUE, s, c) : s \in Selectors, c \in Calldatas}

Lines ==
    {Malformed, NonObject}
    \cup {Object(v, i, m, None, None, None) : v \in Versions, i \in Ids, m \in Methods}
    \cup {Object(Some("2.0"), i, Some("invoke"), Some(p), None, None) :
              i \in Ids, p \in ParamsSet}
    \cup {Object(Some("2.0"), i, None, None, Some(<<>>), None) : i \in Ids}
    \cup {Object(Some("2.0"), i, None, None, None, Some(ErrorObj("no"))) : i \in Ids}

(* ------------------------------------------------------------------- send *)
\* send() that always numbers the message itself
SendId_counter(id) == next_send_id

\* the id send() puts on the message: the caller's, or the counter's
SendId(id) == IF id = None THEN next_send_id ELSE id[1]

\* the counter after send()
SendNext(id) == IF id = None THEN next_send_id + 1 ELSE next_send_id

\* the dict send() prints
SendMsg(id, method, params, result, error) ==
    Object(Some("2.0"), Some(SendId(id)), method, params, result,
           IF error = None THEN None ELSE Some(ErrorObj(error[1])))

(* ------------------------------------------------------------------- recv *)
ReprId(id) == IF id = None THEN "None" ELSE ToString(id[1])

ReprStr(s) == "'" \o s \o "'"

\* recv() whose expect_id check lets a message without an id through
RecvFault_absentok(line, expect_id) ==
    IF line.kind = "malformed" THEN "JSONDecodeError"
    ELSE IF line.kind = "nonobject" THEN "not an object"
    ELSE IF line.jsonrpc # Some("2.0") THEN "bad version"
    ELSE IF expect_id # None /\ line.id # None /\ line.id # expect_id THEN "unexpected id"
    ELSE "none"

\* recv() without the expect_id check
RecvFault_nocheck(line, expect_id) ==
    IF line.kind = "malformed" THEN "JSONDecodeError"
    ELSE IF line.kind = "nonobject" THEN "not an object"
    ELSE IF line.jsonrpc # Some("2.0") THEN "bad version"
    ELSE "none"

\* recv() that checks the id before the version
RecvFault_idfirst(line, expect_id) ==
    IF line.kind = "malformed" THEN "JSONDecodeError"
    ELSE IF line.kind = "nonobject" THEN "not an object"
    ELSE IF expect_id # None /\ line.id # expect_id THEN "unexpected id"
    ELSE IF line.jsonrpc # Some("2.0") THEN "bad version"
    ELSE "none"

\* recv(expect_id=...) on a line: which check stops it, if any
RecvFault(line, expect_id) ==
    IF line.kind = "malformed" THEN "JSONDecodeError"
    ELSE IF line.kind = "nonobject" THEN "not an object"
    ELSE IF line.jsonrpc # Some("2.0") THEN "bad version"
    ELSE IF expect_id # None /\ line.id # expect_id THEN "unexpected id"
    ELSE "none"

\* the in_reply_to that recv hands to fatal_error
RecvReplyTo(line, expect_id) ==
    IF RecvFault(line, expect_id) = "unexpected id" THEN line.id ELSE None

RecvErrText(line, expect_id) ==
    "expected message with ID " \o ReprId(expect_id) \o ", got " \o ReprId(line.id)

(* ------------------------------------------------------------ fatal_error *)
\* fatal_error() that replies whether or not there is an id
FatalOut_always(err, in_reply_to) ==
    Append(stdout, SendMsg(in_reply_to, None, None, None, Some(err)))

\* stdout after fatal_error(err, in_reply_to): a response only if there is an id
FatalOut(err, in_reply_to) ==
    IF in_reply_to # None
    THEN Append(stdout, SendMsg(in_reply_to, None, None, None, Some(err)))
    ELSE stdout

\* _next_send_id after fatal_error(err, in_reply_to): send() runs only with
\* an id, and then leaves the counter alone
FatalNext(in_reply_to) ==
    IF in_reply_to # None THEN SendNext(in_reply_to) ELSE next_send_id

(* ----------------------------------------------------------- route_invoke *)
RECURSIVE ISqrtFrom(_, _)
ISqrtFrom(n, r) == IF (r + 1) * (r + 1) > n THEN r ELSE ISqrtFrom(n, r + 1)

\* int(n ** 0.5) for 0 <= n < 2^52, where the float square root truncates
\* to the integer square root; for a bool n is 0 or 1, for a number with a
\* fraction the result is that of its whole part
IntPowHalf(n) == ISqrtFrom(n, 0)

Outcome(ok, value, err) == [ok |-> ok, value |-> value, err |-> err]

route_invoke(selector, calldata) ==
    IF selector = "sqrt" THEN
        IF Len(calldata) = 0 THEN Outcome(FALSE, <<>>, "list index out of range")
        ELSE IF calldata[1].t = "null"
            THEN Outcome(FALSE, <<>>,
                    "unsupported operand type(s) for ** or pow(): 'NoneType' and 'float'")
        ELSE IF calldata[1].n < 0
            THEN Outcome(FALSE, <<>>,
                    "int() argument must be a string, a bytes-like object or a real number, not 'complex'")
        ELSE Outcome(TRUE, <<IntPowHalf(calldata[1].n)>>, "")
    ELSE IF selector = "panic" THEN Outcome(FALSE, <<>>, "oops")
    ELSE Outcome(FALSE, <<>>, "unknown selector " \o ReprStr(selector))

(* ------------------------------------------------------------------- main *)
Running == exit_code = None

\* the process before main() runs
ProcInit ==
    /\ pc = "Start"
    /\ next_send_id = 0
    /\ stdout = <<>>
    /\ request = None
    /\ nread = 0
    /\ exit_code = None
    /\ acked = FALSE
    /\ eof = FALSE

Init ==
    /\ ProcInit
    /\ fpc = "off"
    /\ arg = <<>>
    /\ ret = <<>>

\* send_id = send(method="ready")
SendReady ==
    /\ pc = "Start"
    /\ stdout' = Append(stdout, SendMsg(None, Some("ready"), None, None, None))
    /\ next_send_id' = SendNext(None)
    /\ pc' = "Handshaking"
    /\ UNCHANGED <<request, nread, exit_code, acked, eof, call>>

\* the id of the ready message, held in send_id
ReadyId == stdout[1].id

\* a process exit: status, and the last words on stdout
Exit(status, out, next) ==
    /\ pc' = "Terminated"
    /\ exit_code' = Some(status)
    /\ stdout' = out
    /\ next_send_id' = next

\* the acknowledgement also run through the dispatch of the loop
HandshakeRecv_dispatch ==
    /\ pc = "Handshaking"
    /\ nread < MaxLines
    /\ UNCHANGED <<eof, call>>
    /\ \E line \in Lines :
        /\ request' = Some(line)
        /\ nread' = nread + 1
        /\ LET fault == RecvFault(line, ReadyId)
               reply == RecvReplyTo(line, ReadyId)
           IN  IF fault = "none"
               THEN /\ acked' = TRUE
                    /\ IF line.method = Some("shutdown")
                       THEN Exit(0, stdout, next_send_id)
                       ELSE /\ pc' = "Serving"
                            /\ UNCHANGED <<stdout, next_send_id, exit_code>>
               ELSE /\ Exit(1, FatalOut(RecvErrText(line, ReadyId), reply), FatalNext(reply))
                    /\ UNCHANGED acked

\* recv(expect_id=send_id) reads a line
HandshakeRecv ==
    /\ pc = "Handshaking"
    /\ nread < MaxLines
    /\ UNCHANGED <<eof, call>>
    /\ \E line \in Lines :
        /\ request' = Some(line)
        /\ nread' = nread + 1
        /\ LET fault == RecvFault(line, ReadyId)
               reply == RecvReplyTo(line, ReadyId)
           IN  IF fault = "none"
               THEN /\ pc' = "Serving"
                    /\ acked' = TRUE
                    /\ UNCHANGED <<stdout, next_send_id, exit_code>>
               ELSE /\ Exit(1, FatalOut(RecvErrText(line, ReadyId), reply), FatalNext(reply))
                    /\ UNCHANGED acked

\* input() in recv(expect_id=send_id) raises EOFError, which nothing catches
HandshakeEOF ==
    /\ pc = "Handshaking"
    /\ eof' = TRUE
    /\ Exit(1, stdout, next_send_id)
    /\ UNCHANGED <<request, nread, acked, call>>

\* a farewell written when the input ends
ServeEOF_bye ==
    /\ pc = "Serving"
    /\ eof' = TRUE
    /\ Exit(0, Append(stdout, SendMsg(None, Some("bye"), None, None, None)), SendNext(None))
    /\ UNCHANGED <<request, nread, acked, call>>

\* EOFError swallowed inside the loop of listen(), which then goes round again
ServeEOF_spin ==
    /\ pc = "Serving"
    /\ eof' = TRUE
    /\ UNCHANGED <<pc, next_send_id, stdout, request, nread, exit_code, acked, call>>

\* input() in listen() raises EOFError: the generator ends, main returns
ServeEOF ==
    /\ pc = "Serving"
    /\ eof' = TRUE
    /\ Exit(0, stdout, next_send_id)
    /\ UNCHANGED <<request, nread, acked, call>>

\* listen() is blocked in input() and the host has a line to write
CanRead == pc = "Serving" /\ nread < MaxLines

Read(line) ==
    /\ request' = Some(line)
    /\ nread' = nread + 1
    /\ UNCHANGED <<acked, eof, call>>

Stay(out, next) ==
    /\ pc' = "Serving"
    /\ exit_code' = exit_code
    /\ stdout' = out
    /\ next_send_id' = next

\* recv() in listen() stops the process
ServeRecvFail ==
    /\ CanRead
    /\ \E line \in Lines :
        /\ RecvFault(line, None) # "none"
        /\ Read(line)
        /\ Exit(1, stdout, next_send_id)

\* if not method: fatal_error(..., in_reply_to=request_id)
ServeNoMethod ==
    /\ CanRead
    /\ \E line \in Lines :
        /\ RecvFault(line, None) = "none"
        /\ line.method \in {None, Some("")}
        /\ Read(line)
        /\ Exit(1, FatalOut("expected method, got {...}", line.id), FatalNext(line.id))

\* "shutdown" acknowledged with a response before the loop is left
ServeShutdown_answered ==
    /\ CanRead
    /\ \E line \in Lines :
        /\ RecvFault(line, None) = "none"
        /\ line.method = Some("shutdown")
        /\ Read(line)
        /\ Exit(0, Append(stdout, SendMsg(line.id, None, None, Some(<<>>), None)),
                SendNext(line.id))

\* elif method == "shutdown": break
ServeShutdown ==
    /\ CanRead
    /\ \E line \in Lines :
        /\ RecvFault(line, None) = "none"
        /\ line.method = Some("shutdown")
        /\ Read(line)
        /\ Exit(0, stdout, next_send_id)

\* params.get(...) on a value that is no dict raises AttributeError
ParamsRaises(line) == line.params # None /\ ~line.params[1].isdict

\* params.get("selector", "")
SelectorOf(line) ==
    IF line.params = None \/ line.params[1].selector = None THEN ""
    ELSE line.params[1].selector[1]

\* params.get("calldata", [])
CalldataOf(line) ==
    IF line.params = None \/ line.params[1].calldata = None THEN <<>>
    ELSE line.params[1].calldata[1]

\* lines 20-22 raise outside the try block
InvokeRaises(line) == ParamsRaises(line) \/ decode_raises(CalldataOf(line))

\* a failed dispatch answered with an empty result next to the error
InvokeResponse_both(line) ==
    LET r == route_invoke(SelectorOf(line), decode(CalldataOf(line)))
    IN  IF r.ok
        THEN SendMsg(line.id, None, None, Some(encode(r.value)), None)
        ELSE SendMsg(line.id, None, None, Some(encode(r.value)), Some(r.err))

\* the message lines 23-27 send
InvokeResponse(line) ==
    LET r == route_invoke(SelectorOf(line), decode(CalldataOf(line)))
    IN  IF r.ok
        THEN SendMsg(line.id, None, None, Some(encode(r.value)), None)
        ELSE SendMsg(line.id, None, None, None, Some(r.err))

\* elif method == "invoke": ...
ServeInvoke ==
    /\ CanRead
    /\ \E line \in Lines :
        /\ RecvFault(line, None) = "none"
        /\ line.method = Some("invoke")
        /\ Read(line)
        /\ IF InvokeRaises(line)
           THEN Exit(1, stdout, next_send_id)
           ELSE Stay(Append(stdout, InvokeResponse(line)), SendNext(line.id))

\* the message line 29 sends
UnknownMethodResponse(line) ==
    SendMsg(line.id, None, None, None, Some("unknown method " \o ReprStr(line.method[1])))

\* an unknown method treated like a missing one
ServeUnknownMethod_fatal ==
    /\ CanRead
    /\ \E line \in Lines :
        /\ RecvFault(line, None) = "none"
        /\ line.method \notin {None, Some(""), Some("shutdown"), Some("invoke")}
        /\ Read(line)
        /\ Exit(1, FatalOut("unknown method", line.id), FatalNext(line.id))

\* else: send(id=request_id, error=f"unknown method {method!r}")
ServeUnknownMethod ==
    /\ CanRead
    /\ \E line \in Lines :
        /\ RecvFault(line, None) = "none"
        /\ line.method \notin {None, Some(""), Some("shutdown"), Some("invoke")}
        /\ Read(line)
        /\ Stay(Append(stdout, UnknownMethodResponse(line)), SendNext(line.id))

Next ==
    \/ SendReady
    \/ HandshakeRecv
    \/ HandshakeEOF
    \/ ServeEOF
    \/ ServeRecvFail
    \/ ServeNoMethod
    \/ ServeShutdown
    \/ ServeInvoke
    \/ ServeUnknownMethod

Spec == Init /\ [][Next]_vars

\* The process is one thread that runs until it blocks in input(), so the
\* "ready" is sent; the input is finite, so an input() that keeps waiting
\* meets the end of the stream.
LiveSpec == Spec /\ WF_vars(SendReady) /\ WF_vars(HandshakeEOF) /\ WF_vars(ServeEOF)

TypeOK ==
    /\ pc \in {"Start", "Handshaking", "Serving", "Terminated"}
    /\ next_send_id \in 0..(MaxLines + 1)
    /\ nread \in 0..MaxLines
    /\ exit_code \in {None, Some(0), Some(1)}
    /\ acked \in BOOLEAN
    /\ eof \in BOOLEAN
    /\ fpc = "off"

(* ------------------------------------------ encode and decode on their own *)
\* felts with one, two, three and more hex digits
FeltValues == (0..MaxFelt) \cup {255, 256, 4095, 65536, 2147483647}

FeltSeqs == UNION {[1..n -> FeltValues] : n \in 0..MaxSeq}

CodecInit ==
    /\ ProcInit
    /\ fpc = "in"
    /\ arg \in FeltSeqs
    /\ ret = <<>>

\* encode(arg)
CodecEncode ==
    /\ fpc = "in"
    /\ fpc' = "encoded"
    /\ ret' = encode(arg)
    /\ UNCHANGED <<arg, proc>>

\* decode() of what encode() returned
CodecDecode ==
    /\ fpc = "encoded"
    /\ LET calldata == [i \in 1..Len(ret) |-> JStr(ret[i])]
       IN  IF decode_raises(calldata)
           THEN fpc' = "raised" /\ ret' = ret
           ELSE fpc' = "decoded" /\ ret' = decode(calldata)
    /\ UNCHANGED <<arg, proc>>

\* decode() of the felts as bare JSON integers
CodecDecodeBare ==
    /\ fpc = "in"
    /\ LET calldata == [i \in 1..Len(arg) |-> JInt(arg[i])]
       IN  IF decode_raises(calldata)
           THEN fpc' = "raised" /\ ret' = ret
           ELSE fpc' = "bare" /\ ret' = decode(calldata)
    /\ UNCHANGED <<arg, proc>>

CodecNext ==
    \/ CodecEncode
    \/ CodecDecode
    \/ CodecDecodeBare

SpecCodec == CodecInit /\ [][CodecNext]_vars

(* ------------------------------------------------- sqrt on wide felts *)
(* A Python int has no width.  A felt of up to 53 bits is held here as two  *)
(* limbs, hi * Limb + lo, so that no intermediate value leaves 32 bits.    *)
\* 2^28
Limb == 268435456
\* 2^14
HalfLimb == 16384
\* the bits of the significand of a Python float (sys.float_info.mant_dig)
MantDig == 53

Big(hi, lo) == [hi |-> hi, lo |-> lo]

BigLeq(a, b) == a.hi < b.hi \/ (a.hi = b.hi /\ a.lo <= b.lo)

\* k * k for 0 <= k < 2^27
BigSquare(k) ==
    LET a == k \div HalfLimb
        b == k % HalfLimb
        c == 2 * a * b
        low == (c % HalfLimb) * HalfLimb + b * b
    IN  Big(a * a + (c \div HalfLimb) + (low \div Limb), low % Limb)

\* int(s, 0) of a hex literal of up to 14 digits
WideParse(s) ==
    LET ds == LitDigits(s)
        cut == IF Len(ds) > 7 THEN Len(ds) - 7 ELSE 0
    IN  Big(DigitsVal(SubSeq(ds, 1, cut), 16), DigitsVal(SubSeq(ds, cut + 1, Len(ds)), 16))

\* the largest k with k * k <= n, found bit by bit from 2^bit down
RECURSIVE ISqrtBits(_, _, _)
ISqrtBits(n, k, bit) ==
    IF bit < 0 THEN k
    ELSE IF BigLeq(BigSquare(k + 2 ^ bit), n) THEN ISqrtBits(n, k + 2 ^ bit, bit - 1)
    ELSE ISqrtBits(n, k, bit - 1)

ISqrtBig(n) == ISqrtBits(n, 0, 26)

RECURSIVE Log2(_)
Log2(k) == IF k < 2 THEN 0 ELSE 1 + Log2(k \div 2)

\* how far n is below the next square, (k + 1)^2 - n, for k = ISqrtBig(n)
GapToNextSquare(n, k) ==
    LET sq == BigSquare(k)
    IN  2 * k + 1 - ((n.hi - sq.hi) * Limb + n.lo - sq.lo)

\* The float n ** 0.5 is the float nearest to the square root of n.  Below
\* k + 1 floats are 2^(Log2(k) - (MantDig - 1)) apart, so the root rounds
\* up to k + 1 exactly when gap * 2^(MantDig - 1 - Log2(k)) <= k, which
\* needs k >= 2^((MantDig - 1) / 2).
RoundsUp(n, k) ==
    /\ k >= 2 ^ ((MantDig - 1) \div 2)
    /\ GapToNextSquare(n, k) <= k \div (2 ^ (MantDig - 1 - Log2(k)))

\* int(n ** 0.5) for 0 <= n < 2^53, which float(n) holds exactly
IntPowHalfWide(n) ==
    LET k == ISqrtBig(n) IN IF RoundsUp(n, k) THEN k + 1 ELSE k

HexDigitSet == {HexChars[i] : i \in 1..16}

\* hex literals of one and two digits, and wide ones around 2^52
WideTexts ==
    {<<"0", "x", c>> : c \in HexDigitSet}
    \cup {<<"0", "x", c, d>> : c \in HexDigitSet, d \in HexDigitSet}
    \cup { <<"0", "x", "f", "f", "f", "f", "f", "f", "f", "f", "f", "f", "f", "f", "f">>,
           <<"0", "x", "1", "0", "0", "0", "0", "0", "0", "0", "0", "0", "0", "0", "0", "0">>,
           <<"0", "x", "1", "0", "0", "0", "0", "0", "0", "8", "0", "0", "0", "0", "0", "0">>,
           <<"0", "x", "1", "0", "0", "0", "0", "0", "0", "8", "0", "0", "0", "0", "0", "1">>,
           <<"0", "x", "1", "0", "0", "0", "0", "0", "0", "7", "f", "f", "f", "f", "f", "f">>,
           <<"0", "x", "3", "f", "f", "f", "f", "f", "f">>,
           <<"0", "x", "4", "0", "0", "0", "0", "0", "0">> }

SqrtInit ==
    /\ ProcInit
    /\ fpc = "sqrt_in"
    /\ arg \in {<<JStr(s)>> : s \in WideTexts}
    /\ ret = <<>>

\* encode(route_invoke("sqrt", decode(arg)))
SqrtInvoke ==
    /\ fpc = "sqrt_in"
    /\ fpc' = "sqrt_out"
    /\ ret' = encode(<<IntPowHalfWide(WideParse(arg[1].s))>>)
    /\ UNCHANGED <<arg, proc>>

SqrtNext == SqrtInvoke

SpecSqrt == SqrtInit /\ [][SqrtNext]_vars

(* ================================================================ claims *)
\* the line a step has just read
Got == request'[1]

\* a step that reads one line in Serving / in Handshaking
ServeRead == pc = "Serving" /\ nread' = nread + 1
HandshakeRead == pc = "Handshaking" /\ nread' = nread + 1

\* the line is a JSON-RPC 2.0 object
WellFormed(line) == line.kind = "object" /\ line.jsonrpc = Some("2.0")

HasMethod(line) == line.method # None /\ line.method # Some("")

\* the step prints exactly one message / nothing
PrintsOne == Len(stdout') = Len(stdout) + 1 /\ SubSeq(stdout', 1, Len(stdout)) = stdout
PrintsNothing == stdout' = stdout
Printed == stdout'[Len(stdout')]

IsErrorResponse(m) == m.method = None /\ m.result = None /\ m.error # None
IsResultResponse(m) == m.method = None /\ m.result # None /\ m.error = None

NoResultIn(out) == \A i \in 1..Len(out) : out[i].result = None

\* once the process has exited nothing is read or written
Halted == pc = "Terminated" => UNCHANGED vars

\* C1: in Serving every request whose method is not "shutdown" gets exactly
\* one response before the next read or the exit, whatever its params,
\* selector or calldata; "shutdown" and end-of-stream get none.
C1_OneResponsePerRequest ==
    [][ /\ (ServeRead /\ WellFormed(Got) /\ HasMethod(Got) /\ Got.method # Some("shutdown"))
            => PrintsOne /\ IsErrorResponse(Printed) # IsResultResponse(Printed)
        /\ (ServeRead /\ WellFormed(Got) /\ Got.method = Some("shutdown")) => PrintsNothing
        /\ (pc = "Serving" /\ eof') => PrintsNothing ]_vars

\* C2: the response to an "invoke" request that carries id X carries id X,
\* whatever ids earlier requests used.
C2_InvokeCorrelation ==
    [][ (ServeRead /\ WellFormed(Got) /\ Got.method = Some("invoke")
            /\ Got.id # None /\ stdout' # stdout)
        => PrintsOne /\ Printed.id = Got.id /\ Printed.method = None ]_vars

C2_Witness ==
    /\ pc = "Serving" /\ Len(stdout) >= 3
    /\ request[1].method = Some("invoke") /\ request[1].id = Some(1)
    /\ stdout[Len(stdout)].id = Some(1)
    /\ stdout[Len(stdout) - 1].id = Some(0)
    /\ IsResultResponse(stdout[Len(stdout)])

\* C3: the first message written is "ready" with id 0, written before any
\* line is read; until a line whose id is the ready id has been accepted as
\* the acknowledgement nothing is dispatched: no result is written, and the
\* only message that can follow "ready" is the refusal of that line, with
\* which the process exits.
ReadyMsg(m) ==
    /\ m.method = Some("ready") /\ m.id = Some(0)
    /\ m.result = None /\ m.error = None /\ m.params = None

C3_HandshakeOrdering ==
    [][ /\ stdout' # <<>> => ReadyMsg(stdout'[1])
        /\ nread' > 0 => stdout # <<>>
        /\ pc = "Start" => nread' = 0
        /\ (acked' /\ ~acked) =>
              HandshakeRead /\ nread = 0 /\ Got.id = stdout[1].id /\ PrintsNothing
        /\ ~acked' =>
              /\ pc' # "Serving"
              /\ NoResultIn(stdout')
              /\ Len(stdout') <= 2
              /\ Len(stdout') = 2 =>
                    pc' = "Terminated" /\ IsErrorResponse(stdout'[2])
                    /\ nread' = 1 /\ stdout'[2].id = request'[1].id
        /\ (pc' = "Serving" \/ Len(stdout') > 2) => acked' ]_vars

C3_Witness ==
    /\ acked /\ nread = 1 /\ pc = "Serving"
    /\ request[1].id = Some(0) /\ request[1].method = Some("invoke")
    /\ Len(stdout) = 1

\* C4: a JSON-RPC 2.0 object read in Handshaking whose id is not the ready
\* id (an absent id included) ends the session: exit status 1, Serving is
\* never entered, no result is ever written.
C4_HandshakeMismatchFatal ==
    [][ /\ (HandshakeRead /\ WellFormed(Got) /\ Got.id # stdout[1].id)
            => /\ pc' = "Terminated" /\ exit_code' = Some(1) /\ ~acked'
               /\ NoResultIn(stdout')
        /\ Halted ]_vars

C4_Witness ==
    /\ pc = "Terminated" /\ ~acked /\ exit_code = Some(1) /\ nread = 1
    /\ WellFormed(request[1]) /\ request[1].id = None
    /\ request[1].method = Some("invoke")

\* C5: "shutdown" read in Serving, with or without an id, writes nothing,
\* ends the process with status 0, and no later line is read.
C5_ShutdownGraceful ==
    [][ /\ (ServeRead /\ WellFormed(Got) /\ Got.method = Some("shutdown"))
            => PrintsNothing /\ pc' = "Terminated" /\ exit_code' = Some(0)
        /\ Halted ]_vars

C5_Witness ==
    /\ pc = "Terminated" /\ exit_code = Some(0) /\ ~eof
    /\ request[1].method = Some("shutdown") /\ request[1].id = None
    /\ nread < MaxLines /\ Len(stdout) = 1

\* C6: wherever in the session the input ends without a "shutdown", the
\* process exits with status 0 and writes nothing more.
C6_EofExitsZero ==
    [][ (eof' /\ ~eof) => exit_code' = Some(0) /\ PrintsNothing ]_vars

\* C7: an "invoke" whose selector is not in the table, or whose handler
\* fails ("panic", "sqrt" on empty calldata), gets an error response with
\* the failure's description, and the session stays in Serving.
HandlerFails(line) ==
    \/ SelectorOf(line) \notin {"sqrt", "panic"}
    \/ SelectorOf(line) = "panic"
    \/ SelectorOf(line) = "sqrt" /\ CalldataOf(line) = <<>>

FailureText(line) ==
    IF SelectorOf(line) = "panic" THEN "oops"
    ELSE IF SelectorOf(line) = "sqrt" THEN "list index out of range"
    ELSE "unknown selector '" \o SelectorOf(line) \o "'"

C7_DispatchFaultRecoverable ==
    [][ (ServeRead /\ WellFormed(Got) /\ Got.method = Some("invoke")
            /\ ~ParamsRaises(Got) /\ HandlerFails(Got))
        => /\ PrintsOne /\ IsErrorResponse(Printed)
           /\ Printed.error[1].message = FailureText(Got)
           /\ pc' = "Serving" /\ exit_code' = None ]_vars

\* C8: an "invoke" whose calldata has an element that is no felt literal
\* gets a normal error response with the request's id, and the session
\* stays in Serving.
C8_BadCalldataRecoverable ==
    [][ (ServeRead /\ WellFormed(Got) /\ Got.method = Some("invoke")
            /\ ~ParamsRaises(Got) /\ decode_raises(CalldataOf(Got)))
        => /\ PrintsOne /\ IsErrorResponse(Printed)
           /\ Got.id # None => Printed.id = Got.id
           /\ pc' = "Serving" /\ exit_code' = None ]_vars

\* C9: a request in Serving whose method is non-empty and neither
\* "shutdown" nor "invoke" gets an error response saying the method is
\* unknown, and the session stays in Serving.
C9_UnknownMethodRecoverable ==
    [][ (ServeRead /\ WellFormed(Got) /\ HasMethod(Got)
            /\ Got.method \notin {Some("shutdown"), Some("invoke")})
        => /\ PrintsOne /\ IsErrorResponse(Printed)
           /\ Printed.error[1].message = "unknown method '" \o Got.method[1] \o "'"
           /\ pc' = "Serving" /\ exit_code' = None ]_vars

C9_Witness ==
    /\ pc = "Serving" /\ nread = 3 /\ Len(stdout) = 3
    /\ stdout[2].error = Some(ErrorObj("unknown method 'ping'"))
    /\ request[1].method = Some("invoke") /\ IsResultResponse(stdout[3])

\* C10: a message in Serving without a method, or with an empty one, is
\* fatal: with an id exactly one error response with that id is written,
\* without an id nothing is written; the process exits with status 1 and
\* reads no further line.
C10_MissingMethodFatal ==
    [][ /\ (ServeRead /\ WellFormed(Got) /\ ~HasMethod(Got))
            => /\ pc' = "Terminated" /\ exit_code' = Some(1)
               /\ IF Got.id # None
                  THEN PrintsOne /\ IsErrorResponse(Printed) /\ Printed.id = Got.id
                  ELSE PrintsNothing
        /\ Halted ]_vars

C10_Witness ==
    /\ pc = "Terminated" /\ exit_code = Some(1) /\ acked /\ nread = 2
    /\ WellFormed(request[1]) /\ request[1].method = Some("") /\ request[1].id = Some(1)
    /\ Len(stdout) = 2 /\ stdout[2].id = Some(1) /\ IsErrorResponse(stdout[2])
    /\ nread < MaxLines

\* C11: every fatal protocol violation (wrong protocol version, handshake
\* id mismatch, missing method) raised by a message that carries an id is
\* answered with an error response carrying that id before the process
\* exits with a non-zero status.
FatalViolation(line) ==
    /\ line.kind = "object"
    /\ \/ line.jsonrpc # Some("2.0")
       \/ pc = "Handshaking" /\ line.id # stdout[1].id
       \/ pc = "Serving" /\ ~HasMethod(line)

C11_FatalNotified ==
    [][ ((ServeRead \/ HandshakeRead) /\ FatalViolation(Got) /\ Got.id # None)
        => /\ PrintsOne /\ IsErrorResponse(Printed) /\ Printed.id = Got.id
           /\ pc' = "Terminated" /\ exit_code' = Some(1) ]_vars

\* C12: in Handshaking and in Serving a line that is no JSON object, or
\* whose jsonrpc is missing or not "2.0", is neither dispatched nor taken
\* as the acknowledgement: the process exits with status 1; the id check
\* and the method check come after it, so neither of them answers the line.
BadEnvelope(line) ==
    line.kind = "nonobject" \/ (line.kind = "object" /\ line.jsonrpc # Some("2.0"))

C12_VersionCheckedFirst ==
    [][ ((ServeRead \/ HandshakeRead) /\ BadEnvelope(Got))
        => /\ pc' = "Terminated" /\ exit_code' = Some(1)
           /\ acked' = acked
           /\ PrintsNothing /\ next_send_id' = next_send_id ]_vars

C12_Witness ==
    /\ pc = "Terminated" /\ exit_code = Some(1) /\ ~acked /\ nread = 1
    /\ request[1].kind = "object" /\ request[1].jsonrpc = Some("1.0")
    /\ request[1].id = Some(1) /\ request[1].method = Some("invoke")
    /\ Len(stdout) = 1

\* C13: for every sequence ns of non-negative integers, decoding the
\* encoding of ns gives ns back, same length and order; the hex text of n
\* and n as a bare JSON integer both decode to n.
C13_FeltRoundTrip ==
    /\ fpc # "raised"
    /\ fpc = "encoded" =>
          /\ Len(ret) = Len(arg)
          /\ \A i \in 1..Len(ret) :
                Len(ret[i]) >= 3 /\ ret[i][1] = "0" /\ ret[i][2] = "x"
    /\ fpc \in {"decoded", "bare"} =>
          /\ Len(ret) = Len(arg)
          /\ \A i \in 1..Len(arg) : ret[i].t = "int" /\ ret[i].n = arg[i]

C13_Witness ==
    /\ fpc = "decoded" /\ arg = <<16, 255>>
    /\ ret = <<JInt(16), JInt(255)>>

\* C14: a calldata element that is neither a JSON string nor a JSON
\* integer (null, a boolean, a number with a fraction), or a negative
\* integer, fails to decode, so an invoke that carries one never gets a
\* success response.
NotAFelt(v) == v.t \notin {"str", "int"} \/ (v.t = "int" /\ v.n < 0)

C14_NonFeltRejected ==
    [][ (ServeRead /\ WellFormed(Got) /\ Got.method = Some("invoke") /\ ~ParamsRaises(Got)
            /\ \E i \in 1..Len(CalldataOf(Got)) : NotAFelt(CalldataOf(Got)[i]))
        => ~(PrintsOne /\ IsResultResponse(Printed)) ]_vars

\* C15: for every non-negative felt n given as the first calldata element,
\* "sqrt" succeeds with the one-element result that is the hex encoding of
\* the integer square root of n, the r with r*r <= n < (r+1)*(r+1).
C15_SqrtIsIntegerRoot ==
    fpc = "sqrt_out" =>
        /\ Len(ret) = 1
        /\ CanParse(ret[1])
        /\ LET n == WideParse(arg[1].s)
               r == ParseInt(ret[1])
           IN  /\ ret[1] = Hex(r)
               /\ BigLeq(BigSquare(r), n)
               /\ ~BigLeq(BigSquare(r + 1), n)

\* C16: every message written carries exactly one of method, result and
\* error: "ready" carries method only, every response carries result or
\* error and never both; a success keeps its result when the handler's
\* output is the empty sequence.
Carried(m) ==
    (IF m.method # None THEN 1 ELSE 0) + (IF m.result # None THEN 1 ELSE 0)
        + (IF m.error # None THEN 1 ELSE 0)

C16_MessageShape ==
    /\ \A i \in 1..Len(stdout) :
          /\ Carried(stdout[i]) = 1
          /\ stdout[i].method # None <=> i = 1
          /\ stdout[i].id # None /\ stdout[i].jsonrpc = Some("2.0")
    /\ IsResultResponse(SendMsg(Some(0), None, None, Some(encode(<<>>)), None))

C16_Witness ==
    /\ Len(stdout) = 3 /\ stdout[1].method = Some("ready")
    /\ IsResultResponse(stdout[2]) /\ IsErrorResponse(stdout[3])

\* C17: the identifier counter is 0 at startup and changes only when the
\* oracle sends a message of its own (the "ready"); a response to a host
\* request, with or without an id on that request, takes no identifier
\* from the counter and leaves it unchanged, so a response only ever
\* carries the host's own id.
C17_CounterOnlyForReady ==
    [][ /\ pc = "Start" => next_send_id = 0
        /\ next_send_id' # next_send_id => pc = "Start"
        /\ ((ServeRead \/ HandshakeRead) /\ PrintsOne) => Printed.id = Got.id ]_vars

\* C18: apart from the initial "ready", a message is written only in
\* reaction to a line just read, at most one per line read, and nothing is
\* written or read once the process has terminated.
C18_StrictAlternation ==
    [][ /\ stdout' # stdout =>
              \/ pc = "Start" /\ stdout = <<>> /\ nread' = nread /\ PrintsOne
              \/ nread' = nread + 1 /\ PrintsOne
        /\ nread' \in {nread, nread + 1}
        /\ Len(stdout') <= nread' + 1
        /\ Halted ]_vars

C18_Witness ==
    /\ pc = "Terminated" /\ eof /\ nread = 3 /\ Len(stdout) = 3
    /\ IsErrorResponse(stdout[2]) /\ IsResultResponse(stdout[3])

\* C19: on every finite input the process eventually terminates; the loop
\* ends at the first "shutdown", the first fatal violation or the end of
\* the stream, and each line is read at most once before that.
C19_Termination ==
    /\ <>(pc = "Terminated" /\ exit_code # None)
    /\ [][ /\ nread' \in {nread, nread + 1}
           /\ (ServeRead /\ (~WellFormed(Got) \/ ~HasMethod(Got) \/ Got.method = Some("shutdown")))
                 => pc' = "Terminated"
           /\ eof' => pc' = "Terminated"
           /\ Halted ]_vars

C19_Witness ==
    /\ pc = "Terminated" /\ exit_code = Some(0) /\ eof /\ acked
    /\ nread = MaxLines /\ Len(stdout) = MaxLines

\* C20: the line read in Handshaking is used only as the acknowledgement:
\* when its id is the ready id it is accepted whatever method, params,
\* result or error it carries, it is not dispatched and gets no response (a
\* "shutdown" or "invoke" on it does nothing), and Serving is entered.
C20_AckOnlyConsumed ==
    [][ (HandshakeRead /\ WellFormed(Got) /\ Got.id = stdout[1].id)
        => /\ pc' = "Serving" /\ acked' /\ exit_code' = None
           /\ PrintsNothing /\ next_send_id' = next_send_id ]_vars

C20_Witness ==
    /\ pc = "Serving" /\ acked /\ nread = 1 /\ exit_code = None
    /\ request[1].method = Some("shutdown") /\ request[1].id = Some(0)
    /\ Len(stdout) = 1
====
